---- MODULE Spec2Model ----
(***************************************************************************)
(* docsee (src/docsee.ts): main() builds the document tree of a GitHub     *)
(* repository with traverseRepository, folds statistics over it with       *)
(* analyzeRepository and renders it with renderHTML.                       *)
(*                                                                         *)
(* The async recursion of traverseRepository and analyzeRepository is a    *)
(* stack of frames; one action is one resumption of the running frame      *)
(* (the code between two awaits).  The GitHub listing API and the file     *)
(* body fetches are the environment: each response is chosen when it       *)
(* arrives, from bounded sets.                                             *)
(*                                                                         *)
(* Strings the code inspects (entry names, file bodies) are sequences of   *)
(* one-character strings.  The program runs on Deno, where                 *)
(* Object.prototype.__proto__ does not exist, so every name is an          *)
(* ordinary property key.  for-in visits integer-like keys first; no name  *)
(* of the model is integer-like, so for-in order is insertion order.       *)
(***************************************************************************)
EXTENDS Integers, Sequences, FiniteSets, TLC

VARIABLES
    pc,         \* position of main(): "traverse", "analyze", "render", "done", "exit1"
    tstack,     \* call stack of traverseRepository, innermost frame last
    astack,     \* call stack of analyzeRepository, innermost frame last
    error,      \* the exception being propagated ("" when none)
    tree,       \* main's `tree`   (<<>> until assigned, then <<value>>)
    stats,      \* main's `stats`  (<<>> until assigned, then <<Analysis>>)
    html,       \* main's `htmlContent` (<<>> until assigned, then <<tokens>>)
    stderr,     \* console.error lines, in order
    pending,    \* listing requests sent and not yet answered (paths)
    queries,    \* every listing request of the traversal, in order (paths)
    responses,  \* every successful listing response of the traversal, in order: [path, items]
    fetched,    \* every file-body fetch, in order: [path, outcome, body]
    budget,     \* listing entries the repository may still reveal
    chars       \* file-body characters the repository may still reveal

vars == <<pc, tstack, astack, error, tree, stats, html, stderr,
          pending, queries, responses, fetched, budget, chars>>

-----------------------------------------------------------------------------
(* Bounds *)

\* total number of entries over all directory listings of the repository
MaxEntries == 3

\* total number of characters over all file bodies of the repository
MaxChars == 3

-----------------------------------------------------------------------------
(* JavaScript values stored in the tree: string | null | object *)

Str(s) == [type |-> "string", str |-> s, props |-> <<>>]

Null == [type |-> "null", str |-> "", props |-> <<>>]

Obj(props) == [type |-> "object", str |-> "", props |-> props]

\* the typeof operator: typeof null is "object"
TypeOf(v) == IF v.type = "null" THEN "object" ELSE v.type

\* for (const key in v): the enumerable properties in order; none for null
ForIn(v) == IF v.type = "object" THEN v.props ELSE <<>>

\* obj[key] = value: replaces the value of an existing key in place, appends a new key
SetProp(props, key, value) ==
    IF \E i \in 1..Len(props) : props[i].key = key
    THEN [i \in 1..Len(props) |->
            IF props[i].key = key THEN [key |-> key, value |-> value] ELSE props[i]]
    ELSE Append(props, [key |-> key, value |-> value])

\* String.prototype.endsWith
EndsWith(s, suffix) ==
    /\ Len(s) >= Len(suffix)
    /\ SubSeq(s, Len(s) - Len(suffix) + 1, Len(s)) = suffix

-----------------------------------------------------------------------------
(* The environment: what the GitHub contents API can list *)

DirNames == { <<"d","o","c","s">>, <<"v",".","m","d">> }

RawURL == [type |-> "string", str |-> "https://raw/u", props |-> <<>>]

\* one element of a listing response, without its path: two directories, markdown files
\* with and without a download URL, a file whose suffix differs in case only, a symlink
Entries ==
    [name : DirNames, type : {"dir"}, download_url : {Null}]
    \cup [name : { <<"a",".","m","d">> }, type : {"file"}, download_url : {RawURL, Null}]
    \cup [name : { <<"b",".","m","d","x">>, <<"r",".","M","D">> }, type : {"file"},
          download_url : {RawURL}]
    \cup [name : { <<"l",".","m","d">> }, type : {"symlink"}, download_url : {Null}]

\* listings of at most n entries, no name twice
RECURSIVE Listings(_)
Listings(n) ==
    IF n = 0 THEN { <<>> }
    ELSE LET shorter == Listings(n - 1) IN
         shorter \cup
         { Append(p[1], p[2]) :
             p \in { q \in shorter \X Entries :
                       /\ Len(q[1]) = n - 1
                       /\ \A i \in 1..Len(q[1]) : q[1][i].name # q[2].name } }

\* the API gives every entry its repository path: the directory's path, then the name
WithPaths(dir, listing) ==
    [i \in 1..Len(listing) |->
        [name |-> listing[i].name, path |-> Append(dir, listing[i].name),
         type |-> listing[i].type, download_url |-> listing[i].download_url]]

\* characters of a file body; WhiteSpace is what both trim() and \s match
WhiteSpace == {" ", "\n", "\t"}

Chars == {"w", " "}

RECURSIVE Bodies(_)
Bodies(n) ==
    IF n = 0 THEN { <<>> }
    ELSE LET shorter == Bodies(n - 1) IN
         shorter \cup { Append(b, c) : b \in {x \in shorter : Len(x) = n - 1}, c \in Chars }

-----------------------------------------------------------------------------
(* traverseRepository *)

Top(stack) == stack[Len(stack)]

Pop(stack) == SubSeq(stack, 1, Len(stack) - 1)

SetTop(stack, frame) == [stack EXCEPT ![Len(stack)] = frame]

\* a test that ignores the case of the suffix
LowerCase(name) ==
    [k \in 1..Len(name) |->
        IF name[k] = "M" THEN "m" ELSE IF name[k] = "D" THEN "d"
        ELSE IF name[k] = "X" THEN "x" ELSE name[k]]

IsMarkdownIgnoreCase(name) ==
    \/ EndsWith(LowerCase(name), <<".","m","d">>)
    \/ EndsWith(LowerCase(name), <<".","m","d","x">>)

\* line 57: item.name.endsWith(".md") || item.name.endsWith(".mdx")
IsMarkdown(name) ==
    EndsWith(name, <<".","m","d">>) \/ EndsWith(name, <<".","m","d","x">>)

\* a loop that visits the items last to first
ItemAtReversed(items, i) == items[Len(items) + 1 - i]

\* line 48: for (const item of items) visits the items in the order of the response
ItemAt(items, i) == items[i]

\* lines 39-45: a call of traverseRepository runs up to the await of the listing
TraverseFrame(path) ==
    [path |-> path, pc |-> "awaitListing", items |-> <<>>, i |-> 1, result |-> <<>>]

\* line 172: main calls traverseRepository(token, owner, repo); the root listing is requested
MainTraverse ==
    /\ pc = "traverse" /\ tstack = <<>> /\ error = "" /\ queries = <<>>
    /\ tstack' = << TraverseFrame(<<>>) >>
    /\ pending' = pending \cup { <<>> }
    /\ queries' = Append(queries, <<>>)
    /\ UNCHANGED <<pc, astack, error, tree, stats, html, stderr, responses, fetched, budget, chars>>

\* lines 27-36, 45: the listing arrives with a success status and parses
ListingOk ==
    /\ pc = "traverse" /\ error = "" /\ tstack # <<>>
    /\ Top(tstack).pc = "awaitListing"
    /\ Top(tstack).path \in pending
    /\ \E listing \in Listings(budget) :
         LET f == Top(tstack)
             items == WithPaths(f.path, listing)
         IN /\ tstack' = SetTop(tstack, [f EXCEPT !.pc = "loop", !.items = items, !.i = 1])
            /\ responses' = Append(responses, [path |-> f.path, items |-> items])
            /\ budget' = budget - Len(listing)
    /\ pending' = pending \ { Top(tstack).path }
    /\ UNCHANGED <<pc, astack, error, tree, stats, html, stderr, queries, fetched, chars>>

\* a fetchRepository that answers a failed query with an empty listing
ListingFailAsEmpty ==
    /\ pc = "traverse" /\ error = "" /\ tstack # <<>>
    /\ Top(tstack).pc = "awaitListing"
    /\ Top(tstack).path \in pending
    /\ tstack' = SetTop(tstack, [Top(tstack) EXCEPT !.pc = "loop"])
    /\ pending' = pending \ { Top(tstack).path }
    /\ UNCHANGED <<pc, astack, error, tree, stats, html, stderr, queries, responses,
                   fetched, budget, chars>>

\* lines 27, 33-36: fetch rejects, the status is not ok, or the body is not JSON:
\* fetchRepository throws, nothing in traverseRepository catches
ListingFail ==
    /\ pc = "traverse" /\ error = "" /\ tstack # <<>>
    /\ Top(tstack).pc = "awaitListing"
    /\ Top(tstack).path \in pending
    /\ \E kind \in {"fetch rejected", "status not ok", "json rejected"} : error' = kind
    /\ pending' = pending \ { Top(tstack).path }
    /\ UNCHANGED <<pc, tstack, astack, tree, stats, html, stderr, queries, responses,
                   fetched, budget, chars>>

\* lines 49-55: a directory entry: the recursive call is made and awaited
TraverseDir ==
    /\ pc = "traverse" /\ error = "" /\ tstack # <<>>
    /\ LET f == Top(tstack) IN
       /\ f.pc = "loop" /\ f.i <= Len(f.items)
       /\ ItemAt(f.items, f.i).type = "dir"
       /\ tstack' = Append(SetTop(tstack, [f EXCEPT !.pc = "awaitChild"]),
                           TraverseFrame(ItemAt(f.items, f.i).path))
       /\ pending' = pending \cup { ItemAt(f.items, f.i).path }
       /\ queries' = Append(queries, ItemAt(f.items, f.i).path)
    /\ UNCHANGED <<pc, astack, error, tree, stats, html, stderr, responses, fetched, budget, chars>>

\* lines 56-60: a file entry is kept when its name is a markdown name
TraverseFile ==
    /\ pc = "traverse" /\ error = "" /\ tstack # <<>>
    /\ LET f == Top(tstack)
           item == ItemAt(f.items, f.i)
       IN /\ f.pc = "loop" /\ f.i <= Len(f.items)
          /\ item.type = "file"
          /\ tstack' = SetTop(tstack,
                [f EXCEPT !.i = f.i + 1,
                          !.result = IF IsMarkdown(item.name)
                                     THEN SetProp(f.result, item.name, item.download_url)
                                     ELSE f.result])
    /\ UNCHANGED <<pc, astack, error, tree, stats, html, stderr, pending, queries,
                   responses, fetched, budget, chars>>

\* lines 49, 56: an entry that is neither "dir" nor "file" is passed over
TraverseOther ==
    /\ pc = "traverse" /\ error = "" /\ tstack # <<>>
    /\ LET f == Top(tstack) IN
       /\ f.pc = "loop" /\ f.i <= Len(f.items)
       /\ ItemAt(f.items, f.i).type \notin {"dir", "file"}
       /\ tstack' = SetTop(tstack, [f EXCEPT !.i = f.i + 1])
    /\ UNCHANGED <<pc, astack, error, tree, stats, html, stderr, pending, queries,
                   responses, fetched, budget, chars>>

\* lines 62, 50: the loop is over; the result goes to the awaiting caller, which stores
\* it under the directory's name (line 50), or to main's `tree` (line 172)
TraverseReturn ==
    /\ pc = "traverse" /\ error = "" /\ tstack # <<>>
    /\ LET f == Top(tstack) IN
       /\ f.pc = "loop" /\ f.i > Len(f.items)
       /\ IF Len(tstack) = 1
          THEN /\ tstack' = <<>>
               /\ tree' = << Obj(f.result) >>
               /\ pc' = "analyze"
          ELSE LET caller == tstack[Len(tstack) - 1]
                   item == ItemAt(caller.items, caller.i)
               IN /\ tstack' = SetTop(Pop(tstack),
                        [caller EXCEPT !.pc = "loop", !.i = caller.i + 1,
                                       !.result = SetProp(caller.result, item.name,
                                                          Obj(f.result))])
                  /\ UNCHANGED <<tree, pc>>
    /\ UNCHANGED <<astack, error, stats, html, stderr, pending, queries, responses,
                   fetched, budget, chars>>

\* an exception leaves the frame that awaited it: neither traverseRepository nor
\* analyzeRepository (outside lines 96-110) has a handler
Propagate ==
    /\ error # ""
    /\ tstack # <<>> \/ astack # <<>>
    /\ tstack' = IF tstack # <<>> THEN Pop(tstack) ELSE tstack
    /\ astack' = IF tstack # <<>> THEN astack ELSE Pop(astack)
    /\ UNCHANGED <<pc, error, tree, stats, html, stderr, pending, queries, responses,
                   fetched, budget, chars>>

\* lines 188-191: main().catch reports the error and exits with code 1
MainCatch ==
    /\ error # "" /\ tstack = <<>> /\ astack = <<>>
    /\ pc \notin {"done", "exit1"}
    /\ pc' = "exit1"
    /\ stderr' = Append(stderr, [line |-> "Error:", key |-> <<>>, detail |-> error])
    /\ UNCHANGED <<tstack, astack, error, tree, stats, html, pending, queries, responses,
                   fetched, budget, chars>>

-----------------------------------------------------------------------------
(* analyzeRepository *)

\* lines 85-90
ZeroStats == [folderCount |-> 0, fileCount |-> 0, wordCount |-> 0, totalSize |-> 0]

\* String.prototype.trim: drops the leading and the trailing white space
RECURSIVE TrimStart(_)
TrimStart(s) ==
    IF s # <<>> /\ Head(s) \in WhiteSpace THEN TrimStart(Tail(s)) ELSE s

RECURSIVE TrimEnd(_)
TrimEnd(s) ==
    IF s # <<>> /\ s[Len(s)] \in WhiteSpace THEN TrimEnd(SubSeq(s, 1, Len(s) - 1)) ELSE s

Trim(s) == TrimEnd(TrimStart(s))

\* String.prototype.split(/\s+/): the pieces between maximal runs of white space; a run
\* at either end leaves an empty piece there, and the empty string gives one empty piece
RECURSIVE SplitWhiteSpace(_)
SplitWhiteSpace(s) ==
    IF \A k \in 1..Len(s) : s[k] \notin WhiteSpace
    THEN << s >>
    ELSE LET first == CHOOSE k \in 1..Len(s) :
                        /\ s[k] \in WhiteSpace
                        /\ \A j \in 1..(k - 1) : s[j] \notin WhiteSpace
             rest == TrimStart(SubSeq(s, first, Len(s)))
         IN << SubSeq(s, 1, first - 1) >> \o SplitWhiteSpace(rest)

\* line 101: content.trim().split(/\s+/)
Words(content) == SplitWhiteSpace(Trim(content))

\* a count without the special case of the empty first piece
CountWordsNoSpecialCase(content) == Len(Words(content))

\* line 102: words[0] === "" ? 0 : words.length
CountWords(content) ==
    LET words == Words(content) IN IF words[1] = <<>> THEN 0 ELSE Len(words)

\* a try block that ends before response.text() is awaited
CaughtFetchOnly(outcome) == outcome = "fetch rejected"

\* lines 104-110: the catch clause takes every exception thrown in the try block
Caught(outcome) == outcome \in {"fetch rejected", "text rejected"}

\* lines 105-109: console.error names the entry's key
Report(key, outcome) == [line |-> "Error fetching file", key |-> key, detail |-> outcome]

\* lines 98-103: what a response adds to the statistics
Contribution(outcome, content) ==
    IF outcome = "ok"
    THEN [totalSize |-> Len(content), wordCount |-> CountWords(content)]
    ELSE [totalSize |-> 0, wordCount |-> 0]

\* a version that counts the file only once its body has arrived
FetchFileCountOnSuccess(st, key, outcome, content) ==
    LET counted == IF outcome = "ok" THEN [st EXCEPT !.fileCount = st.fileCount + 1] ELSE st
        add == Contribution(outcome, content)
    IN [stats  |-> [counted EXCEPT !.totalSize = counted.totalSize + add.totalSize,
                                   !.wordCount = counted.wordCount + add.wordCount],
        report |-> IF outcome \in {"fetch rejected", "text rejected"}
                   THEN << Report(key, outcome) >> ELSE <<>>,
        thrown |-> ""]

\* lines 95-110: one string entry. outcome is what the network does: "ok" (success
\* status, text() gives content), "status not ok", "fetch rejected", "text rejected"
FetchFile(st, key, outcome, content) ==
    LET counted == [st EXCEPT !.fileCount = st.fileCount + 1]
        threw == outcome \in {"fetch rejected", "text rejected"}
        add == Contribution(outcome, content)
    IN [stats  |-> [counted EXCEPT !.totalSize = counted.totalSize + add.totalSize,
                                   !.wordCount = counted.wordCount + add.wordCount],
        report |-> IF threw /\ Caught(outcome) THEN << Report(key, outcome) >> ELSE <<>>,
        thrown |-> IF threw /\ ~Caught(outcome) THEN outcome ELSE ""]

\* line 94: typeof value === "string"
IsFileValue(value) == TypeOf(value) = "string"

\* a test that also excludes null, in the aggregator only
IsFolderValueNotNull(value) == value.type = "object"

\* line 111: typeof value === "object"
IsFolderValue(value) == TypeOf(value) = "object"

\* lines 116-119: the sub-directory's statistics are added to the running ones
Merge(st, sub) ==
    [folderCount |-> st.folderCount + sub.folderCount,
     fileCount   |-> st.fileCount + sub.fileCount,
     wordCount   |-> st.wordCount + sub.wordCount,
     totalSize   |-> st.totalSize + sub.totalSize]

\* lines 82-92: a call of analyzeRepository: fresh statistics, at the first key
AnalyzeFrame(path, node) == [path |-> path, node |-> node, i |-> 1, stats |-> ZeroStats]

\* line 173: main calls analyzeRepository(tree). The traversal is over: the logs of its
\* listing queries are closed, and the statistics are measured against the tree
MainAnalyze ==
    /\ pc = "analyze" /\ error = "" /\ astack = <<>> /\ stats = <<>>
    /\ astack' = << AnalyzeFrame(<<>>, tree[1]) >>
    /\ queries' = <<>> /\ responses' = <<>>
    /\ UNCHANGED <<pc, tstack, error, tree, stats, html, stderr, pending,
                   fetched, budget, chars>>

\* the entry the running call of analyzeRepository is at
AtEntry ==
    /\ pc = "analyze" /\ error = "" /\ astack # <<>>
    /\ Top(astack).i <= Len(ForIn(Top(astack).node))

CurrentEntry == ForIn(Top(astack).node)[Top(astack).i]

\* lines 94-110 for one network outcome
AnalyzeFile(outcome, content) ==
    /\ AtEntry
    /\ IsFileValue(CurrentEntry.value)
    /\ LET f == Top(astack)
           r == FetchFile(f.stats, CurrentEntry.key, outcome, content)
       IN /\ astack' = SetTop(astack, [f EXCEPT !.stats = r.stats, !.i = f.i + 1])
          /\ stderr' = stderr \o r.report
          /\ error' = r.thrown
          /\ fetched' = Append(fetched, [path |-> Append(f.path, CurrentEntry.key),
                                         outcome |-> outcome, body |-> content])
          /\ chars' = chars - Len(content)
    /\ UNCHANGED <<pc, tstack, tree, stats, html, pending, queries, responses, budget>>

\* the body arrives with a success status
AnalyzeFileOk == \E content \in Bodies(chars) : AnalyzeFile("ok", content)

\* the response has a status that is not a success
AnalyzeFileStatus == AnalyzeFile("status not ok", <<>>)

\* fetch() rejects (network error)
AnalyzeFileFetchThrows == AnalyzeFile("fetch rejected", <<>>)

\* response.text() rejects (the connection breaks while the body is read)
AnalyzeFileTextThrows == AnalyzeFile("text rejected", <<>>)

\* lines 111-120: a value that is not a string: an object is counted as a folder and
\* analysed by a recursive call; any other value is passed over
AnalyzeNonString ==
    /\ AtEntry
    /\ ~IsFileValue(CurrentEntry.value)
    /\ LET f == Top(astack) IN
       IF IsFolderValue(CurrentEntry.value)
       THEN astack' = Append(
                SetTop(astack, [f EXCEPT !.stats.folderCount = f.stats.folderCount + 1]),
                AnalyzeFrame(Append(f.path, CurrentEntry.key), CurrentEntry.value))
       ELSE astack' = SetTop(astack, [f EXCEPT !.i = f.i + 1])
    /\ UNCHANGED <<pc, tstack, error, tree, stats, html, stderr, pending, queries,
                   responses, fetched, budget, chars>>

\* lines 123, 113-119: the loop is over; the statistics go to the awaiting caller, which
\* merges them, or to main's `stats` (line 173)
AnalyzeReturn ==
    /\ pc = "analyze" /\ error = "" /\ astack # <<>>
    /\ LET f == Top(astack) IN
       /\ f.i > Len(ForIn(f.node))
       /\ IF Len(astack) = 1
          THEN /\ astack' = <<>>
               /\ stats' = << f.stats >>
               /\ pc' = "render"
          ELSE LET caller == astack[Len(astack) - 1] IN
               /\ astack' = SetTop(Pop(astack),
                      [caller EXCEPT !.stats = Merge(caller.stats, f.stats),
                                     !.i = caller.i + 1])
               /\ UNCHANGED <<stats, pc>>
    /\ UNCHANGED <<tstack, error, tree, html, stderr, pending, queries, responses,
                   fetched, budget, chars>>

-----------------------------------------------------------------------------
(* renderHTML *)

Tag(tag, class, key, href) == [tag |-> tag, class |-> class, key |-> key, href |-> href]

\* line 68: typeof tree[key] === "string"
IsFileItem(value) == TypeOf(value) = "string"

\* lines 65-80: the markup as a sequence of tags
RECURSIVE RenderHTML(_)
RECURSIVE RenderEntries(_, _)
RenderEntries(props, i) ==
    IF i > Len(props) THEN <<>>
    ELSE (IF IsFileItem(props[i].value)
          THEN << Tag("li", "file", props[i].key, props[i].value.str) >>
          ELSE << Tag("li", "folder", props[i].key, "") >>
               \o RenderHTML(props[i].value) \o << Tag("/li", "", <<>>, "") >>)
         \o RenderEntries(props, i + 1)

RenderHTML(node) ==
    << Tag("ul", "tree", <<>>, "") >> \o RenderEntries(ForIn(node), 1)
        \o << Tag("/ul", "", <<>>, "") >>

\* lines 174-184: the tree is rendered and the document written
MainRender ==
    /\ pc = "render" /\ error = ""
    /\ html' = << RenderHTML(tree[1]) >>
    /\ pc' = "done"
    /\ UNCHANGED <<tstack, astack, error, tree, stats, stderr, pending, queries,
                   responses, fetched, budget, chars>>

-----------------------------------------------------------------------------
(* The program *)

\* main at line 171: arguments and token are valid, nothing has been requested
Init ==
    /\ pc = "traverse"
    /\ tstack = <<>> /\ astack = <<>>
    /\ error = ""
    /\ tree = <<>> /\ stats = <<>> /\ html = <<>>
    /\ stderr = <<>>
    /\ pending = {}
    /\ queries = <<>> /\ responses = <<>> /\ fetched = <<>>
    /\ budget = MaxEntries
    /\ chars = MaxChars

Next ==
    \/ MainTraverse
    \/ ListingOk
    \/ ListingFail
    \/ TraverseDir
    \/ TraverseFile
    \/ TraverseOther
    \/ TraverseReturn
    \/ Propagate
    \/ MainCatch
    \/ MainAnalyze
    \/ AnalyzeFileOk
    \/ AnalyzeFileStatus
    \/ AnalyzeFileFetchThrows
    \/ AnalyzeFileTextThrows
    \/ AnalyzeNonString
    \/ AnalyzeReturn
    \/ MainRender

Spec == Init /\ [][Next]_vars

\* traverseRepository alone: main up to the assignment of `tree`
TraverseNext ==
    \/ MainTraverse
    \/ ListingOk
    \/ ListingFail
    \/ TraverseDir
    \/ TraverseFile
    \/ TraverseOther
    \/ TraverseReturn
    \/ Propagate
    \/ MainCatch

\* the event loop runs every continuation that is ready, and every request is answered
TraverseSpec == Init /\ [][TraverseNext]_vars /\ WF_vars(TraverseNext)

-----------------------------------------------------------------------------
(* What the properties are measured against: the document tree as data, and the *)
(* network logs                                                                  *)

RECURSIVE SumSeq(_)
SumSeq(ns) == IF ns = <<>> THEN 0 ELSE Head(ns) + SumSeq(Tail(ns))

\* Leaves with a URL, at any depth
RECURSIVE CountLeaves(_)
CountLeaves(node) ==
    SumSeq([k \in 1..Len(node.props) |->
        LET v == node.props[k].value IN
        IF v.type = "string" THEN 1
        ELSE IF v.type = "object" THEN CountLeaves(v) ELSE 0])

\* Subtrees, at any depth
RECURSIVE CountSubtrees(_)
CountSubtrees(node) ==
    SumSeq([k \in 1..Len(node.props) |->
        LET v == node.props[k].value IN
        IF v.type = "object" THEN 1 + CountSubtrees(v) ELSE 0])

\* Leaves without a URL, at any depth
RECURSIVE CountNullLeaves(_)
CountNullLeaves(node) ==
    SumSeq([k \in 1..Len(node.props) |->
        LET v == node.props[k].value IN
        IF v.type = "null" THEN 1
        ELSE IF v.type = "object" THEN CountNullLeaves(v) ELSE 0])

\* the value stored under a key of a node
ValueAt(node, key) ==
    (CHOOSE e \in {node.props[k] : k \in 1..Len(node.props)} : e.key = key).value

HasKey(node, key) == \E k \in 1..Len(node.props) : node.props[k].key = key

\* the node a path of directory names leads to
RECURSIVE NodeAt(_, _)
NodeAt(node, path) ==
    IF path = <<>> THEN node ELSE NodeAt(ValueAt(node, Head(path)), Tail(path))

\* the maximal runs of characters that are not white space
Tokens(body) ==
    Cardinality({k \in 1..Len(body) :
        /\ body[k] \notin WhiteSpace
        /\ (k = 1 \/ body[k - 1] \in WhiteSpace)})

HasSuffix(name, suffix) ==
    \E k \in 0..Len(name) : SubSeq(name, k + 1, Len(name)) = suffix

Failed(k) == fetched[k].outcome # "ok"

AnalysisOver == stats # <<>>

\* traverseRepository has returned to main, analyzeRepository is not yet called
TraversalOver == pc = "analyze" /\ astack = <<>>

\* a listing query was answered with a failure
ListingFailed ==
    \E k \in 1..Len(queries) :
        /\ queries[k] \notin pending
        /\ \A j \in 1..Len(responses) : responses[j].path # queries[k]

-----------------------------------------------------------------------------
(* Properties *)

\* C1: failure isolation. However many file fetches fail (fetch rejects, status not
\* ok, text() rejects), analyzeRepository throws nothing and returns; every fetch,
\* failed or not, adds 1 to fileCount; a failed one adds nothing to wordCount and
\* totalSize, and every other file adds what its body adds when nothing fails.
C1_FailureIsolation ==
    /\ pc \in {"analyze", "render", "done"} => error = ""
    /\ AnalysisOver =>
         /\ stats[1].fileCount = Len(fetched)
         /\ stats[1].totalSize =
              SumSeq([k \in 1..Len(fetched) |->
                        IF Failed(k) THEN 0 ELSE Len(fetched[k].body)])
         /\ stats[1].wordCount =
              SumSeq([k \in 1..Len(fetched) |->
                        IF Failed(k) THEN 0 ELSE Tokens(fetched[k].body)])

\* C1 witness: the run is over, a fetch was rejected while the body was read, and a file
\* fetched after it still added its words
C1_Witness ==
    /\ pc = "done"
    /\ \E j, k \in 1..Len(fetched) :
         /\ j < k
         /\ fetched[j].outcome = "text rejected"
         /\ fetched[k].outcome = "ok" /\ Tokens(fetched[k].body) > 0
         /\ stats[1].wordCount > 0

\* C2: the fileCount at the root is the number of Leaves with a URL at any depth of the
\* tree, whatever the outcome of their fetches.
C2_FileCount == AnalysisOver => stats[1].fileCount = CountLeaves(tree[1])

\* C2 witness: two Leaves at different depths, one of them failed
C2_Witness ==
    /\ pc = "done"
    /\ stats[1].fileCount = 2
    /\ \E j, k \in 1..Len(fetched) :
         /\ Len(fetched[j].path) = 1 /\ Len(fetched[k].path) = 2
         /\ Failed(j) /\ ~Failed(k)

\* C3: the folderCount at the root is the number of Subtrees at any depth: every
\* directory once, and nothing that is not a directory.
C3_FolderCount == AnalysisOver => stats[1].folderCount = CountSubtrees(tree[1])

\* what the code counts instead: the Subtrees and the Leaves without a URL
FolderCountAsCoded ==
    AnalysisOver =>
        stats[1].folderCount = CountSubtrees(tree[1]) + CountNullLeaves(tree[1])

\* C4: a step of analyzeRepository at a Leaf without a URL changes no counter, starts no
\* recursive call and fetches nothing.
C4_NullLeafIgnored ==
    [][ (AtEntry /\ CurrentEntry.value.type = "null") =>
          /\ Len(astack') = Len(astack)
          /\ Top(astack').stats = Top(astack).stats
          /\ fetched' = fetched ]_vars

\* C5: once a listing query has failed, at the root or below, there is no tree, no
\* call of analyzeRepository, no statistics, no markup and no file fetch, and no listing
\* is outstanding; main ends with exit code 1 and reports that one failure.
C5_FailFast ==
    ListingFailed =>
        /\ error # ""
        /\ tree = <<>> /\ stats = <<>> /\ html = <<>>
        /\ astack = <<>> /\ fetched = <<>>
        /\ pending = {}
        /\ pc \in {"traverse", "exit1"}
        /\ pc = "exit1" =>
             stderr = << [line |-> "Error:", key |-> <<>>, detail |-> error] >>

\* C5 witness: a nested listing failed after the root listing had arrived with a
\* markdown file, and main has exited
C5_Witness ==
    /\ pc = "exit1"
    /\ Len(responses) >= 1
    /\ \E k \in 1..Len(responses[1].items) :
         /\ responses[1].items[k].type = "file"
         /\ responses[1].items[k].download_url.type = "string"
    /\ Len(queries) >= 2

\* C6: for every listed directory, the node built for it has a key n exactly when the
\* listing has a directory named n, or a file named n whose name ends in .md or .mdx
\* (case-sensitive); a directory's key holds a Subtree (the one built for its path, empty
\* or not), a file's key holds its download URL.
C6_TreeShape ==
    TraversalOver =>
        \A r \in 1..Len(responses) :
            LET node == NodeAt(tree[1], responses[r].path)
                items == responses[r].items
                kept(item) ==
                    \/ item.type = "dir"
                    \/ /\ item.type = "file"
                       /\ \/ HasSuffix(item.name, <<".","m","d">>)
                          \/ HasSuffix(item.name, <<".","m","d","x">>)
            IN /\ node.type = "object"
               /\ \A k \in 1..Len(items) : kept(items[k]) <=> HasKey(node, items[k].name)
               /\ \A k \in 1..Len(node.props) :
                     \E j \in 1..Len(items) : items[j].name = node.props[k].key
               /\ \A k \in 1..Len(items) :
                     kept(items[k]) =>
                        IF items[k].type = "dir"
                        THEN /\ ValueAt(node, items[k].name).type = "object"
                             /\ \E q \in 1..Len(responses) :
                                   /\ responses[q].path = items[k].path
                                   /\ ValueAt(node, items[k].name)
                                        = NodeAt(tree[1], responses[q].path)
                        ELSE ValueAt(node, items[k].name) = items[k].download_url

\* C6 witness: a listing with a kept markdown file, a file whose suffix differs in case
\* only, and a directory whose Subtree is empty
C6_Witness ==
    /\ TraversalOver
    /\ \E i, j, k \in 1..Len(responses[1].items) :
         LET items == responses[1].items IN
         /\ items[i].name = <<"a",".","m","d">>
         /\ items[j].name = <<"r",".","M","D">>
         /\ items[k].type = "dir"
         /\ ValueAt(tree[1], items[k].name) = Obj(<<>>)
         /\ Len(tree[1].props) = 2

\* C7: when every file fetch succeeded, the wordCount at the root is the sum over the
\* fetched bodies of their numbers of white-space-delimited tokens; an empty or
\* all-white-space body adds zero.
C7_WordCount ==
    (AnalysisOver /\ \A k \in 1..Len(fetched) : ~Failed(k)) =>
        stats[1].wordCount =
            SumSeq([k \in 1..Len(fetched) |-> Tokens(fetched[k].body)])

\* C7 witness: every fetch succeeded, one body was empty, another had two tokens
C7_Witness ==
    /\ pc = "done"
    /\ \A k \in 1..Len(fetched) : ~Failed(k)
    /\ \E j, k \in 1..Len(fetched) :
         /\ fetched[j].body = <<>>
         /\ fetched[k].body = <<"w", " ", "w">>
    /\ stats[1].wordCount = 2

\* C8: every failed file fetch, by a rejection or by a status that is not a success, has
\* its report on the error stream, naming the entry, as soon as the step is over.
C8_EveryFailureReported ==
    \A k \in 1..Len(fetched) :
        Failed(k) =>
            \E j \in 1..Len(stderr) :
                /\ stderr[j].line = "Error fetching file"
                /\ stderr[j].key = fetched[k].path[Len(fetched[k].path)]

\* the listing queries in depth-first order, children in the order of the listing
RECURSIVE DepthFirst(_)
RECURSIVE DepthFirstFrom(_, _)
DepthFirstFrom(items, k) ==
    IF k > Len(items) THEN <<>>
    ELSE (IF items[k].type = "dir" THEN DepthFirst(items[k].path) ELSE <<>>)
         \o DepthFirstFrom(items, k + 1)

DepthFirst(path) ==
    << path >> \o
    DepthFirstFrom((CHOOSE r \in {responses[k] : k \in 1..Len(responses)} :
                        r.path = path).items, 1)

\* at most one listing outstanding; no directory queried twice; with no failed query,
\* the queries of a finished traversal are those of the depth-first order
C9_Order ==
    /\ Cardinality(pending) <= 1
    /\ \A j, k \in 1..Len(queries) : queries[j] = queries[k] => j = k
    /\ (TraversalOver /\ ~ListingFailed) => queries = DepthFirst(<<>>)

\* C9: listing queries are sent one at a time, depth first, in the order of each listing,
\* every listed directory once, and the traversal ends.
C9_DepthFirst == []C9_Order /\ <>(pc # "traverse")

\* C9 witness: the first directory of the root had a sub-directory, which was queried
\* before the root's second directory
C9_Witness ==
    /\ TraversalOver
    /\ Len(queries) = 4
    /\ Len(queries[2]) = 1 /\ Len(queries[3]) = 2 /\ Len(queries[4]) = 1

\* C10: renderHTML emits as many file items as analyzeRepository counts files, and as
\* many folder items as it counts folders.
C10_RendererAgrees ==
    pc = "done" =>
        /\ Cardinality({k \in 1..Len(html[1]) :
               html[1][k].tag = "li" /\ html[1][k].class = "file"})
             = stats[1].fileCount
        /\ Cardinality({k \in 1..Len(html[1]) :
               html[1][k].tag = "li" /\ html[1][k].class = "folder"})
             = stats[1].folderCount

\* C10 witness: a tree with a URL, a null and a directory
C10_Witness ==
    /\ pc = "done"
    /\ CountLeaves(tree[1]) >= 1
    /\ CountNullLeaves(tree[1]) >= 1
    /\ CountSubtrees(tree[1]) >= 1

====
